---- MODULE Spec2Model ----
(***************************************************************************)
(* WebSocketActionBar (packages/insomnia/src/ui/components/websockets/     *)
(* action-bar.tsx): the URL bar of a WebSocket request.  handleSubmit      *)
(* either closes the open connection or renders the request and posts one  *)
(* connect command; three keyboard listeners, the form and the URL editor  *)
(* are wired to it.                                                        *)
(*                                                                         *)
(* Strings are sequences of tokens; a token is a literal chunk or a        *)
(* nunjucks tag such as "{{host}}".  Rendering replaces tags by their      *)
(* value in the environment and fails on a tag the environment lacks.      *)
(***************************************************************************)
EXTENDS Integers, Sequences, FiniteSets, TLC

\* ------------------------------------------------------------------ bounds
\* handleSubmit invocations in one behaviour
MaxSubmits == 2
\* re-renders in one behaviour of the submit pipeline
MaxRenders == 1
\* renders after the first (re-render, unmount, mount) in one behaviour of the
\* component's life cycle
MaxLifecycle == 2
\* edits of the URL field in one behaviour
MaxEdits == 1

\* ------------------------------------------------------------------ inputs
Tags == {"{{host}}", "{{k}}"}

\* the variables each environment resolves
EnvironmentIds == {"env_full", "env_empty"}
EnvVars(environmentId) ==
    IF environmentId = "env_full"
    THEN ("{{host}}" :> "example.com") @@ ("{{k}}" :> "dbg")
    ELSE <<>>

Param(n, v, d) == [name |-> n, value |-> v, disabled |-> d]

\* the spec's example: one enabled and one disabled parameter, a tag in the URL
ReqExample ==
    [_id |-> "req_1",
     url |-> <<"wss://", "{{host}}", "/chat">>,
     headers |-> <<[name |-> "X-Env", value |-> "{{k}}"]>>,
     authentication |-> [type |-> "bearer", token |-> "{{k}}"],
     parameters |-> <<Param("id", "1", FALSE), Param("dbg", "1", TRUE)>>,
     suppressUserAgent |-> FALSE]
\* a disabled parameter whose key an enabled parameter also carries, and a
\* disabled parameter made of tags: no tag is in an enabled field
ReqSameKey ==
    [_id |-> "req_2",
     url |-> <<"wss://h/chat">>,
     headers |-> <<>>,
     authentication |-> [type |-> "none", token |-> ""],
     parameters |-> <<Param("dbg", "1", TRUE), Param("dbg", "2", FALSE),
                      Param("{{host}}", "{{k}}", TRUE)>>,
     suppressUserAgent |-> TRUE]
\* a disabled parameter whose key already occurs in the URL's own query
ReqKeyInUrl ==
    [_id |-> "req_2",
     url |-> <<"wss://h/chat", "?", "dbg", "=", "0">>,
     headers |-> <<>>,
     authentication |-> [type |-> "none", token |-> ""],
     parameters |-> <<Param("dbg", "1", TRUE)>>,
     suppressUserAgent |-> FALSE]
Requests == {ReqExample, ReqSameKey, ReqKeyInUrl}

\* raw texts typed into the URL field
UrlTexts == {<<"wss://h/chat">>, <<"wss://", "{{host}}", "/chat">>}

\* key combinations and focus locations of a keypress
Keys == {"Enter", "Meta+Enter", "Ctrl+Enter"}
Focus == {"url", "sidebar", "other"}
\* the key request_send is bound to in the hotkey registry (it depends on the
\* platform and the user can change it)
SendHotkeys == {"Meta+Enter", "Ctrl+Enter"}

VARIABLES
    mounted,        \* the component is mounted
    request,        \* prop request
    environmentId,  \* prop environmentId
    readyState,     \* prop readyState
    handleSubmit,   \* the memoised handleSubmit closure: what it captured, and its identity
    renderNo,       \* renders so far; names the function objects a render creates
    gridlist,       \* the element #sidebar-request-gridlist is in the document
    listeners,      \* keydown listeners on that element, in registration order
    effect,         \* the sendOnMetaEnter the pending cleanup will remove (0: none)
    docBody,        \* the request_send shortcut is registered on document.body
    calls,          \* every handleSubmit invocation, in call order
    commands,       \* connect and close commands issued, in order
    jarFetches,     \* calls of models.cookieJar.getOrCreateForParentId
    interpCalls,    \* calls of tryToInterpolateRequestOrShowRenderErrorModal
    errorReports,   \* render-error reports shown
    onChangeLog,    \* texts passed to the owner's onChange
    trigNo          \* user gestures (keypresses, clicks) that called handleSubmit

vars == <<mounted, request, environmentId, readyState, handleSubmit, renderNo,
          gridlist, listeners, effect, docBody, calls, commands,
          jarFetches, interpCalls, errorReports, onChangeLog, trigNo>>

\* ------------------------------------------------- collaborators (pure)
Range(s) == {s[i] : i \in 1..Len(s)}

\* nunjucks rendering of one token: a tag is replaced by its value
RenderToken(t, envVars) == IF t \in Tags THEN envVars[t] ELSE t
Renderable(t, envVars) == t \notin Tags \/ t \in DOMAIN envVars
RenderStr(s, envVars) == [i \in 1..Len(s) |-> RenderToken(s[i], envVars)]
RenderPair(p, envVars) ==
    [p EXCEPT !.name = RenderToken(@, envVars), !.value = RenderToken(@, envVars)]

\* every tag of the payload is resolved by the environment
PayloadRenderable(payload, envVars) ==
    /\ \A t \in Range(payload.url) : Renderable(t, envVars)
    /\ \A h \in Range(payload.headers) :
          Renderable(h.name, envVars) /\ Renderable(h.value, envVars)
    /\ Renderable(payload.authentication.token, envVars)
    /\ \A p \in Range(payload.parameters) :
          Renderable(p.name, envVars) /\ Renderable(p.value, envVars)

\* tryToInterpolateRequestOrShowRenderErrorModal: the rendered payload, or
\* nothing (ok = FALSE) after reporting the render error
tryToInterpolate(req, envId, payload) ==
    LET envVars == EnvVars(envId) IN
    IF PayloadRenderable(payload, envVars)
    THEN [ok |-> TRUE,
          url |-> RenderStr(payload.url, envVars),
          headers |-> [i \in 1..Len(payload.headers) |->
                          RenderPair(payload.headers[i], envVars)],
          authentication |-> [payload.authentication EXCEPT
                                 !.token = RenderToken(@, envVars)],
          parameters |-> [i \in 1..Len(payload.parameters) |->
                             RenderPair(payload.parameters[i], envVars)],
          workspaceCookieJar |-> payload.workspaceCookieJar,
          suppressUserAgent |-> req.suppressUserAgent]
    ELSE [ok |-> FALSE]

\* buildQueryStringFromParams: name=value items joined by "&"
RECURSIVE buildQueryStringFromParams(_)
buildQueryStringFromParams(parameters) ==
    IF parameters = <<>> THEN <<>>
    ELSE LET p == Head(parameters)
             rest == buildQueryStringFromParams(Tail(parameters))
         IN <<p.name, "=", p.value>> \o
            (IF rest = <<>> THEN <<>> ELSE <<"&">> \o rest)

\* joinUrlAndQueryString: the query string appended with "?", or with "&"
\* when the URL already has a query
joinUrlAndQueryString(url, qs) ==
    IF qs = <<>> THEN url
    ELSE url \o <<IF "?" \in Range(url) THEN "&" ELSE "?">> \o qs

\* ------------------------------------------------------- the component
\* faulty variant: the disabled parameters are removed from the receiver itself
FilterInPlace(parameters) ==
    LET kept == SelectSeq(parameters, LAMBDA p : ~p.disabled)
    IN [result |-> kept, receiver |-> kept]
\* faulty variant: nothing is filtered out
FilterNothing(parameters) == [result |-> parameters, receiver |-> parameters]
\* Array.prototype.filter(p => !p.disabled): a new array; the receiver
\* (request.parameters) is left as it was
FilterEnabled(parameters) ==
    [result |-> SelectSeq(parameters, LAMBDA p : ~p.disabled),
     receiver |-> parameters]

\* the payload handed to the interpolation
Payload(req, jar) ==
    [url |-> req.url,
     headers |-> req.headers,
     authentication |-> req.authentication,
     parameters |-> FilterEnabled(req.parameters).result,
     workspaceCookieJar |-> jar]

\* faulty variant: the query string is not appended
ConnectCommandBareUrl(requestId, rendered) ==
    [type |-> "connect",
     requestId |-> requestId,
     url |-> rendered.url,
     headers |-> rendered.headers,
     authentication |-> rendered.authentication,
     cookieJar |-> rendered.workspaceCookieJar,
     suppressUserAgent |-> rendered.suppressUserAgent]
\* connect(connectParams): the command posted to the request's connect route,
\* built from the rendering
ConnectCommand(requestId, rendered) ==
    [type |-> "connect",
     requestId |-> requestId,
     url |-> joinUrlAndQueryString(rendered.url,
                 buildQueryStringFromParams(rendered.parameters)),
     headers |-> rendered.headers,
     authentication |-> rendered.authentication,
     cookieJar |-> rendered.workspaceCookieJar,
     suppressUserAgent |-> rendered.suppressUserAgent]

\* faulty variant: the close is not addressed by the request's own identifier
CloseCommandFixedId(req) == [type |-> "close", requestId |-> "req_1"]
\* window.main.webSocket.close({ requestId: request._id })
CloseCommand(req) == [type |-> "close", requestId |-> req._id]

\* no payload has been built yet
NoPayload == [none |-> TRUE]

\* the closure useCallback returns for handleSubmit: what it captured
Closure(ver, isOpen, req, envId) ==
    [ver |-> ver, isOpen |-> isOpen, request |-> req, environmentId |-> envId]

\* what the handlers read and write
Handled == [calls |-> calls, commands |-> commands, jarFetches |-> jarFetches,
            onChangeLog |-> onChangeLog]

\* the invocations that stand at an await
Pending(cs) == {i \in 1..Len(cs) : cs[i].pc # "done"}

\* a handleSubmit invocation: what the closure captured, where it stands, and
\* what was observed when it started and ended
NewCall(h, hs, trig) ==
    [trig |-> trig, isOpen |-> hs.isOpen, request |-> hs.request,
     environmentId |-> hs.environmentId, pc |-> "jar", payload |-> NoPayload,
     outcome |-> "pending", readyAtStart |-> readyState,
     pendingAtStart |-> Cardinality(Pending(h.calls)), readyAtEnd |-> FALSE]

\* faulty variant: no return after the close
HandleSubmitNoReturn(h, hs, trig) ==
    [h EXCEPT !.commands = IF hs.isOpen
                           THEN Append(@, CloseCommand(hs.request)
                                          @@ [call |-> Len(h.calls) + 1])
                           ELSE @,
              !.calls = Append(@, NewCall(h, hs, trig)),
              !.jarFetches = @ + 1]
\* variant with an in-flight guard: a submit started while another one stands
\* at an await returns at once
HandleSubmitFenced(h, hs, trig) ==
    IF hs.isOpen
    THEN [h EXCEPT
            !.commands = Append(@, CloseCommand(hs.request)
                                   @@ [call |-> Len(h.calls) + 1]),
            !.calls = Append(@, [NewCall(h, hs, trig) EXCEPT
                                    !.pc = "done", !.outcome = "closed",
                                    !.readyAtEnd = readyState])]
    ELSE IF Pending(h.calls) # {}
    THEN [h EXCEPT !.calls = Append(@, [NewCall(h, hs, trig) EXCEPT
                                    !.pc = "done", !.outcome = "skipped",
                                    !.readyAtEnd = readyState])]
    ELSE [h EXCEPT !.calls = Append(@, NewCall(h, hs, trig)),
                   !.jarFetches = @ + 1]
\* handleSubmit up to its first await: close and return when open, else start
\* the cookie-jar fetch
HandleSubmit(h, hs, trig) ==
    IF hs.isOpen
    THEN [h EXCEPT
            !.commands = Append(@, CloseCommand(hs.request)
                                   @@ [call |-> Len(h.calls) + 1]),
            !.calls = Append(@, [NewCall(h, hs, trig) EXCEPT
                                    !.pc = "done", !.outcome = "closed",
                                    !.readyAtEnd = readyState])]
    ELSE [h EXCEPT !.calls = Append(@, NewCall(h, hs, trig)),
                   !.jarFetches = @ + 1]

\* faulty variant: without a rendering, the unrendered payload is connected
DispatchUnrendered(cmds, i, c, rendered) ==
    IF rendered.ok
    THEN Append(cmds, ConnectCommand(c.request._id, rendered) @@ [call |-> i])
    ELSE Append(cmds, ConnectCommandBareUrl(c.request._id,
                          c.payload @@ [suppressUserAgent |->
                                           c.request.suppressUserAgent])
                      @@ [call |-> i])
\* rendered && connect({...}): the connect command, when there is a rendering
DispatchRendered(cmds, i, c, rendered) ==
    IF rendered.ok
    THEN Append(cmds, ConnectCommand(c.request._id, rendered) @@ [call |-> i])
    ELSE cmds

\* several listeners reacting to one event, each calling handleSubmit, in
\* dispatch order
RECURSIVE Dispatch(_, _, _)
Dispatch(h, closures, trig) ==
    IF closures = <<>> THEN h
    ELSE Dispatch(HandleSubmit(h, Head(closures), trig), Tail(closures), trig)

\* faulty variant: an edit also submits
OnChangeSubmits(h, text) ==
    HandleSubmit([h EXCEPT !.onChangeLog = Append(@, text)], handleSubmit, trigNo)
\* OneLineEditor onChange={onChange}: the editor's text goes to the owner as is
OnChange(h, text) == [h EXCEPT !.onChangeLog = Append(@, text)]

\* ------------------------------------------------------------ the effect
\* element?.addEventListener('keydown', fn, { capture: true })
AddEventListener(ls, present, l) == IF present THEN Append(ls, l) ELSE ls
\* faulty variant: the cleanup removes nothing
RemoveNothing(ls, present, fn) == ls
\* element?.removeEventListener('keydown', fn, { capture: true })
RemoveEventListener(ls, present, fn) ==
    IF present THEN SelectSeq(ls, LAMBDA l : l.fn # fn) ELSE ls

\* a render whose handleSubmit changed: the previous effect's cleanup, then
\* the effect, which registers a new sendOnMetaEnter calling the new closure
RunEffect(ls, present, oldFn, hs) ==
    AddEventListener(RemoveEventListener(ls, present, oldFn), present,
                     [fn |-> hs.ver, hs |-> hs])

\* the dependencies of useCallback changed since the last render
DepsChanged(hs, req, envId, isOpen, fetcherChanged) ==
    \/ fetcherChanged
    \/ hs.request # req
    \/ hs.environmentId # envId
    \/ hs.isOpen # isOpen

\* ----------------------------------------------------------- the triggers
\* sendOnMetaEnter: event.metaKey && event.key === 'Enter'
MetaEnter(key) == key = "Meta+Enter"

\* the closures the listeners reacting to one keypress call, in dispatch
\* order: the capture listeners on the sidebar list, the URL field's Enter
\* binding, the request_send shortcut on document.body (which the event
\* reaches when it bubbles, and which reacts to the key it is bound to)
Reacting(key, focus, bubbles, sendHotkey) ==
    (IF focus = "sidebar" /\ gridlist /\ MetaEnter(key)
     THEN [i \in 1..Len(listeners) |-> listeners[i].hs] ELSE <<>>)
    \o (IF focus = "url" /\ mounted /\ key = "Enter"
        THEN <<handleSubmit>> ELSE <<>>)
    \o (IF docBody /\ bubbles /\ key = sendHotkey
        THEN <<handleSubmit>> ELSE <<>>)

\* --------------------------------------------------------------- actions
Init ==
    /\ mounted = TRUE
    /\ request \in Requests
    /\ environmentId \in EnvironmentIds
    /\ readyState \in BOOLEAN
    /\ renderNo = 1
    /\ handleSubmit = Closure(1, readyState, request, environmentId)
    /\ gridlist = TRUE
    /\ listeners = RunEffect(<<>>, gridlist, 0, handleSubmit)
    /\ effect = 1
    /\ docBody = TRUE
    /\ calls = <<>>
    /\ commands = <<>>
    /\ jarFetches = 0
    /\ interpCalls = 0
    /\ errorReports = 0
    /\ onChangeLog = <<>>
    /\ trigNo = 0

\* what a handler did becomes the state
Apply(h) ==
    /\ calls' = h.calls
    /\ commands' = h.commands
    /\ jarFetches' = h.jarFetches
    /\ onChangeLog' = h.onChangeLog

\* a keydown event: every listener it reaches calls handleSubmit
KeyPress ==
    \E key \in Keys, focus \in Focus, bubbles \in BOOLEAN,
       sendHotkey \in SendHotkeys :
        LET closures == Reacting(key, focus, bubbles, sendHotkey) IN
        /\ closures # <<>>
        /\ Len(calls) + Len(closures) <= MaxSubmits
        /\ trigNo' = trigNo + 1
        /\ Apply(Dispatch(Handled, closures, trigNo + 1))
        /\ UNCHANGED <<mounted, request, environmentId, readyState, handleSubmit,
                       renderNo, gridlist, listeners, effect, docBody, interpCalls, errorReports>>

\* Form onSubmit: the Connect button, rendered while not open
FormSubmit ==
    /\ mounted
    /\ ~readyState
    /\ Len(calls) < MaxSubmits
    /\ trigNo' = trigNo + 1
    /\ Apply(HandleSubmit(Handled, handleSubmit, trigNo + 1))
    /\ UNCHANGED <<mounted, request, environmentId, readyState, handleSubmit,
                   renderNo, gridlist, listeners, effect, docBody, interpCalls, errorReports>>

\* the awaited getOrCreateForParentId resolves; handleSubmit builds the payload
\* and calls the interpolation.  filter works on request.parameters: what it
\* leaves of its receiver is what the captured request holds afterwards, and
\* the request prop too when it is that object
JarResolved ==
    \E i \in 1..Len(calls) :
        LET c == calls[i]
            req == [c.request EXCEPT
                       !.parameters = FilterEnabled(@).receiver]
        IN
        /\ c.pc = "jar"
        /\ interpCalls' = interpCalls + 1
        /\ calls' = [calls EXCEPT ![i] = [c EXCEPT
                        !.pc = "interp",
                        !.request = req,
                        !.payload = Payload(c.request, "jar")]]
        /\ request' = IF request = c.request THEN req ELSE request
        /\ UNCHANGED <<mounted, environmentId, readyState, handleSubmit, renderNo,
                       gridlist, listeners, effect, docBody, commands,
                       jarFetches, errorReports, onChangeLog, trigNo>>

\* the awaited interpolation resolves, with the rendering or, after reporting
\* the render error, with nothing
InterpResolved ==
    \E i \in 1..Len(calls) :
        LET c == calls[i]
            rendered == tryToInterpolate(c.request, c.environmentId, c.payload)
        IN
        /\ c.pc = "interp"
        /\ errorReports' = IF rendered.ok THEN errorReports ELSE errorReports + 1
        /\ commands' = DispatchRendered(commands, i, c, rendered)
        /\ calls' = [calls EXCEPT ![i] = [c EXCEPT
                        !.pc = "done",
                        !.outcome = IF rendered.ok THEN "connected" ELSE "failed",
                        !.readyAtEnd = readyState]]
        /\ UNCHANGED <<mounted, request, environmentId, readyState, handleSubmit,
                       renderNo, gridlist, listeners, effect, docBody, jarFetches, interpCalls, onChangeLog, trigNo>>

\* an edit of the URL field
Edit ==
    \E text \in UrlTexts :
        /\ mounted
        /\ Len(onChangeLog) < MaxEdits
        /\ Apply(OnChange(Handled, text))
        /\ UNCHANGED <<mounted, request, environmentId, readyState, handleSubmit,
                       renderNo, gridlist, listeners, effect, docBody, interpCalls, errorReports, trigNo>>

\* the parent renders the component again with its current props.  React runs
\* the effects of a render (cleanup, then effect) before it handles a later
\* event, so render and effect are one step
Render(limit) ==
    \E req \in Requests, envId \in EnvironmentIds, isOpen \in BOOLEAN,
       fetcherChanged \in BOOLEAN :
        /\ mounted
        /\ renderNo <= limit
        /\ renderNo' = renderNo + 1
        /\ request' = req
        /\ environmentId' = envId
        /\ readyState' = isOpen
        /\ IF DepsChanged(handleSubmit, req, envId, isOpen, fetcherChanged)
           THEN /\ handleSubmit' = Closure(renderNo + 1, isOpen, req, envId)
                /\ listeners' = RunEffect(listeners, gridlist, effect, handleSubmit')
                /\ effect' = renderNo + 1
           ELSE UNCHANGED <<handleSubmit, listeners, effect>>
        /\ UNCHANGED <<mounted, gridlist, docBody, calls, commands,
                       jarFetches, interpCalls, errorReports, onChangeLog, trigNo>>

\* a re-render among submits
Rerender == Render(MaxRenders)
\* a re-render in the component's life cycle
RerenderInLife == Render(MaxLifecycle)

\* the component unmounts: the effect's cleanup runs, the shortcuts go
Unmount ==
    /\ mounted
    /\ renderNo <= MaxLifecycle
    /\ renderNo' = renderNo + 1
    /\ mounted' = FALSE
    /\ listeners' = RemoveEventListener(listeners, gridlist, effect)
    /\ effect' = 0
    /\ docBody' = FALSE
    /\ UNCHANGED <<request, environmentId, readyState, handleSubmit, gridlist,
                   calls, commands, jarFetches, interpCalls,
                   errorReports, onChangeLog, trigNo>>

\* the component mounts again
Mount ==
    \E req \in Requests, envId \in EnvironmentIds, isOpen \in BOOLEAN :
        /\ ~mounted
        /\ renderNo <= MaxLifecycle
        /\ renderNo' = renderNo + 1
        /\ mounted' = TRUE
        /\ request' = req
        /\ environmentId' = envId
        /\ readyState' = isOpen
        /\ handleSubmit' = Closure(renderNo + 1, isOpen, req, envId)
        /\ listeners' = RunEffect(listeners, gridlist, effect, handleSubmit')
        /\ effect' = renderNo + 1
        /\ docBody' = TRUE
        /\ UNCHANGED <<gridlist, calls, commands, jarFetches,
                       interpCalls, errorReports, onChangeLog, trigNo>>

\* the sidebar's request list leaves the document, taking its listeners along,
\* or a new list element enters it
SidebarToggle ==
    /\ gridlist' = ~gridlist
    /\ listeners' = <<>>
    /\ UNCHANGED <<mounted, request, environmentId, readyState, handleSubmit,
                   renderNo, effect, docBody, calls, commands,
                   jarFetches, interpCalls, errorReports, onChangeLog, trigNo>>

\* the submit pipeline: gestures, the two awaited steps, re-renders
Next ==
    \/ KeyPress
    \/ FormSubmit
    \/ JarResolved
    \/ InterpResolved
    \/ Rerender

Spec == Init /\ [][Next]_vars

\* the URL field: edits among submits
NextEdit ==
    \/ Edit
    \/ KeyPress
    \/ FormSubmit
    \/ JarResolved
    \/ InterpResolved

SpecEdit == Init /\ [][NextEdit]_vars

\* the life cycle: renders, unmounts and mounts, the sidebar list coming and
\* going, keypresses
NextLifecycle ==
    \/ RerenderInLife
    \/ Unmount
    \/ Mount
    \/ SidebarToggle
    \/ KeyPress

SpecLifecycle == Init /\ [][NextLifecycle]_vars

\* ---------------------------------------------------------------- claims
\* the commands a handleSubmit invocation issued
CommandsOf(i) == {k \in 1..Len(commands) : commands[k].call = i}
ClosesOf(i) == {k \in CommandsOf(i) : commands[k].type = "close"}
ConnectsOf(i) == {k \in CommandsOf(i) : commands[k].type = "connect"}

\* the request's parameters that are not disabled, in order
EnabledOf(req) == SelectSeq(req.parameters, LAMBDA p : ~p.disabled)
DisabledOf(req) == {p \in Range(req.parameters) : p.disabled}

\* the environment resolves every tag of the URL, the headers, the
\* authentication and the enabled parameters
Interpolates(req, envId) ==
    LET envVars == EnvVars(envId) IN
    \A t \in Range(req.url) \cup {req.authentication.token}
             \cup {h.name : h \in Range(req.headers)}
             \cup {h.value : h \in Range(req.headers)}
             \cup {q.name : q \in Range(EnabledOf(req))}
             \cup {q.value : q \in Range(EnabledOf(req))} :
        t \in Tags => t \in DOMAIN envVars

\* join(interpolatedUrl, queryStringOf(enabledParams))
ExpectedUrl(req, envId) ==
    LET envVars == EnvVars(envId)
        enabled == EnabledOf(req)
    IN joinUrlAndQueryString(
           RenderStr(req.url, envVars),
           buildQueryStringFromParams(
               [i \in 1..Len(enabled) |-> RenderPair(enabled[i], envVars)]))

\* the keys of a URL's query string: what follows "?" or "&"
QueryKeys(url) ==
    {url[k + 1] : k \in {n \in 1..(Len(url) - 1) : url[n] \in {"?", "&"}}}
QueryItems(url) == Cardinality({n \in 1..(Len(url) - 1) : url[n] \in {"?", "&"}})

\* C1, as stated: every finished submit issued exactly one command, a close
\* when the readiness flag was true at the submission and a connect when false.
C1_ExactlyOneCommand ==
    \A i \in 1..Len(calls) :
        calls[i].pc = "done" =>
            /\ Cardinality(CommandsOf(i)) = 1
            /\ \A k \in CommandsOf(i) :
                  commands[k].type =
                      IF calls[i].readyAtStart THEN "close" ELSE "connect"

\* C1, amended: every submit issues at most one command, and the readiness flag
\* at the submission decides which: one close when true; when false one connect
\* once the interpolation has succeeded, and none while it is pending or when
\* it failed.
C1_AtMostOneCommand ==
    \A i \in 1..Len(calls) :
        LET c == calls[i] IN
        /\ Cardinality(CommandsOf(i)) <= 1
        /\ c.readyAtStart =>
              /\ c.pc = "done"
              /\ Cardinality(ClosesOf(i)) = 1
        /\ ~c.readyAtStart =>
              /\ ClosesOf(i) = {}
              /\ Cardinality(ConnectsOf(i)) =
                    IF c.pc = "done" /\ Interpolates(c.request, c.environmentId)
                    THEN 1 ELSE 0

\* C1 witness: one submit ended without a command because its interpolation
\* failed, another one issued its command.
C1_Witness ==
    \E i, j \in 1..Len(calls) :
        /\ calls[i].pc = "done" /\ ~calls[i].readyAtStart /\ CommandsOf(i) = {}
        /\ Cardinality(CommandsOf(j)) = 1

\* C2: a submit while readyState is true issues one close command addressed by
\* the request's identifier and no connect command, and neither fetches the
\* cookie jar nor interpolates.
C2_OpenSubmitCloses ==
    /\ \A i \in 1..Len(calls) :
          calls[i].readyAtStart =>
              /\ ConnectsOf(i) = {}
              /\ Cardinality(ClosesOf(i)) = 1
              /\ \A k \in ClosesOf(i) :
                    commands[k].requestId = calls[i].request._id
              /\ calls[i].payload = NoPayload
              /\ calls[i].pc = "done"
    /\ jarFetches = Cardinality({i \in 1..Len(calls) : ~calls[i].readyAtStart})
    /\ interpCalls = Cardinality({i \in 1..Len(calls) :
                         ~calls[i].readyAtStart /\ calls[i].pc # "jar"})

\* C2 witness: a request with parameters and tags was submitted while open.
C2_Witness ==
    /\ Len(calls) = 2
    /\ calls[1].readyAtStart /\ calls[1].request = ReqSameKey
    /\ calls[2].readyAtStart /\ calls[2].request = ReqExample
    /\ Len(commands) = 2
    /\ jarFetches = 0 /\ interpCalls = 0

\* C3: a submit while readyState is false whose interpolation fails issues no
\* command and produces one error report; it is not retried.
C3_FailedRenderIssuesNothing ==
    /\ \A i \in 1..Len(calls) :
          LET c == calls[i] IN
          (~c.readyAtStart /\ c.pc = "done"
              /\ ~Interpolates(c.request, c.environmentId)) =>
                 /\ CommandsOf(i) = {}
                 /\ c.outcome = "failed"
    /\ errorReports = Cardinality({i \in 1..Len(calls) :
                         /\ ~calls[i].readyAtStart /\ calls[i].pc = "done"
                         /\ ~Interpolates(calls[i].request, calls[i].environmentId)})
    /\ interpCalls <= Len(calls)

\* C3 witness: the example request failed to render in the empty environment.
C3_Witness ==
    /\ Len(calls) = 1
    /\ calls[1].request = ReqExample /\ calls[1].environmentId = "env_empty"
    /\ calls[1].outcome = "failed"
    /\ commands = <<>> /\ errorReports = 1 /\ interpCalls = 1

\* C4: a submit while readyState is false whose interpolation succeeds issues
\* one connect command and no close command, and the command's URL is the
\* interpolated URL joined with the query string of the interpolated parameters
\* that are not disabled.
C4_ConnectUrl ==
    \A i \in 1..Len(calls) :
        LET c == calls[i] IN
        (~c.readyAtStart /\ c.pc = "done"
            /\ Interpolates(c.request, c.environmentId)) =>
               /\ ClosesOf(i) = {}
               /\ Cardinality(ConnectsOf(i)) = 1
               /\ \A k \in ConnectsOf(i) :
                     /\ commands[k].url = ExpectedUrl(c.request, c.environmentId)
                     /\ (c.request = ReqExample =>
                            commands[k].url = <<"wss://", "example.com", "/chat",
                                                "?", "id", "=", "1">>)

\* C4 witness: the example request connected with its enabled parameter only.
C4_Witness ==
    \E k \in 1..Len(commands) :
        /\ commands[k].type = "connect"
        /\ calls[commands[k].call].request = ReqExample
        /\ commands[k].url = <<"wss://", "example.com", "/chat", "?", "id", "=", "1">>

\* C5, as stated: the connect command's query string never contains the key of
\* a disabled parameter of the request.
C5_NoDisabledKey ==
    \A k \in 1..Len(commands) :
        commands[k].type = "connect" =>
            \A p \in DisabledOf(calls[commands[k].call].request) :
                p.name \notin QueryKeys(commands[k].url)

\* C5, amended: the query string the submit appends has one item for each
\* enabled parameter and none for a disabled one; a disabled parameter's key
\* occurs in the command's query string only when an enabled parameter renders
\* to the same key or the interpolated URL's own query already holds it.
C5_NoDisabledParameter ==
    \A k \in 1..Len(commands) :
        commands[k].type = "connect" =>
            LET c == calls[commands[k].call]
                envVars == EnvVars(c.environmentId)
                own == RenderStr(c.request.url, envVars)
            IN
            /\ QueryItems(commands[k].url) =
                  QueryItems(own) + Len(EnabledOf(c.request))
            /\ \A p \in DisabledOf(c.request) :
                  p.name \in QueryKeys(commands[k].url) =>
                      \/ p.name \in QueryKeys(own)
                      \/ \E q \in Range(EnabledOf(c.request)) :
                            RenderToken(q.name, envVars) = p.name

\* C5 witness: a connect for the request whose disabled key an enabled
\* parameter carries too, and one for the request whose disabled key no
\* enabled parameter carries.
C5_Witness ==
    \E a, b \in 1..Len(commands) :
        /\ commands[a].type = "connect"
        /\ calls[commands[a].call].request = ReqSameKey
        /\ commands[a].url = <<"wss://h/chat", "?", "dbg", "=", "2">>
        /\ commands[b].type = "connect"
        /\ calls[commands[b].call].request = ReqExample
        /\ "dbg" \notin QueryKeys(commands[b].url)

\* C6: the listeners reacting to one keypress issue at most one command in
\* total.
C6_OneCommandPerKeypress ==
    \A t \in 1..trigNo :
        Cardinality({k \in 1..Len(commands) :
                        calls[commands[k].call].trig = t}) <= 1

\* C7: an edit of the URL field only forwards the typed text, as typed, through
\* onChange: it starts no cookie-jar fetch and no interpolation and issues no
\* command, whatever readyState is.
C7_EditOnlyForwards ==
    [][onChangeLog' # onChangeLog =>
          /\ \E text \in UrlTexts : onChangeLog' = Append(onChangeLog, text)
          /\ UNCHANGED <<calls, commands, jarFetches, interpCalls, errorReports>>
      ]_vars

\* C7 witness: a text with a tag was forwarded unrendered while the connection
\* was open, and nothing else happened.
C7_Witness ==
    /\ readyState
    /\ onChangeLog = <<(<<"wss://", "{{host}}", "/chat">>)>>
    /\ calls = <<>> /\ commands = <<>>

\* C8: no step of a submit changes the request; the request prop changes only
\* by a render, the request an invocation captured never changes, and two
\* connect commands for the same request and environment are the same command.
C8_SubmitLeavesRequest ==
    [][/\ \A i \in 1..Len(calls) : calls'[i].request = calls[i].request
       /\ request' # request => renderNo' # renderNo
       /\ \A a, b \in 1..Len(commands') :
             (/\ commands'[a].type = "connect"
              /\ commands'[b].type = "connect"
              /\ calls'[commands'[a].call].request
                    = calls'[commands'[b].call].request
              /\ calls'[commands'[a].call].environmentId
                    = calls'[commands'[b].call].environmentId)
             => [commands'[a] EXCEPT !.call = 0] = [commands'[b] EXCEPT !.call = 0]
      ]_vars

\* C8 witness: the example request was submitted twice, once failing and once
\* connecting, and still has its disabled parameter.
C8_Witness ==
    /\ Len(calls) = 2
    /\ calls[1].outcome = "failed"
    /\ calls[2].outcome = "connected"
    /\ calls[1].request = ReqExample /\ calls[2].request = ReqExample
    /\ request = ReqExample

\* C9: submits are not fenced: a submit started while another is in flight runs
\* like any other, and when its interpolation succeeds it issues its own connect
\* command, whatever readyState has become meanwhile.
C9_NoFence ==
    \A j \in 1..Len(calls) :
        LET c == calls[j] IN
        (~c.readyAtStart /\ c.pendingAtStart > 0) =>
            /\ c.outcome \in {"pending", "connected", "failed"}
            /\ (c.pc = "done" /\ Interpolates(c.request, c.environmentId))
                  => Cardinality(ConnectsOf(j)) = 1

\* C9 witness: two overlapping submits of one request each issued a connect
\* command, the second after readyState had become true.
C9_Witness ==
    /\ Len(calls) = 2 /\ Len(commands) = 2
    /\ calls[2].pendingAtStart = 1
    /\ commands[1].type = "connect" /\ commands[2].type = "connect"
    /\ commands[1].requestId = commands[2].requestId
    /\ commands[1].call # commands[2].call
    /\ ~calls[commands[1].call].readyAtEnd
    /\ calls[commands[2].call].readyAtEnd

\* C10: at most one sendOnMetaEnter listener is registered, it calls the
\* current handleSubmit, and once the component is unmounted none is left and
\* no keypress reaches a submit.
C10_ScopedListener ==
    /\ Len(listeners) <= 1
    /\ \A n \in 1..Len(listeners) :
          mounted /\ listeners[n].hs = handleSubmit /\ listeners[n].fn = effect
    /\ ~mounted =>
          /\ listeners = <<>>
          /\ \A key \in Keys, focus \in Focus, bubbles \in BOOLEAN,
                   sendHotkey \in SendHotkeys :
                Reacting(key, focus, bubbles, sendHotkey) = <<>>

\* C10 witness: the component was mounted, rendered again and unmounted while
\* the sidebar list was in the document.
C10_Witness ==
    /\ ~mounted
    /\ gridlist
    /\ renderNo = 3
    /\ handleSubmit.ver = 2
    /\ listeners = <<>>

====
